---------------------------- MODULE Spec2Model ----------------------------
(***************************************************************************)
(* Seymour: feedback mixer with safety limiter (src/src/seymour.cpp).      *)
(*                                                                         *)
(* The model follows construct, parameterChanged and step.  A host that    *)
(* owns the parameter values v[] and the bus memory calls them.            *)
(*                                                                         *)
(* Numbers.  The code computes in float32.  The model computes in fixed    *)
(* point: a signal, gain or envelope x is held as the integer x * Scale,   *)
(* a filter coefficient c as c * CoefScale.  A pan position keeps the      *)
(* code's unit (-100..100) and is held the same way.  Products are rounded *)
(* to the nearest step.  The increment of a one-pole smoother              *)
(* (x += c * (target - x)) is rounded away from zero: float32 resolves     *)
(* 6e-8, so the code's smoothers come within 5e-6 of their target, which   *)
(* is the target itself at the model's resolution.  A change smaller than  *)
(* half a step is lost in rounding: the DC blocker's decay of 0.07% per    *)
(* frame shows on samples above 0.7 only.                                  *)
(***************************************************************************)
EXTENDS Integers, Sequences, FiniteSets, TLC

(***************************************************************************)
(* Resolution of the fixed-point numbers.                                  *)
(***************************************************************************)
Scale == 1000
CoefScale == 10 * Scale

(***************************************************************************)
(* Bounds on what the host does in one behaviour.                          *)
(***************************************************************************)
MaxCalls == 2
MaxParamChanges == 1
IdleFramesBy4 == 479
IdleBlockBy4 == 8
MaxSettleChanges == 2
MaxSettleCalls == 2
SettleFramesBy4 == 64
SettleBlockBy4 == 8
MaxOutputChanges == 2
MaxIsolationChanges == 2
MaxInstances == 2
WarmFramesBy4 == 128

(***************************************************************************)
(* Program constants.                                                      *)
(***************************************************************************)
kMaxInputs == 8
kParamsPerChannel == 7
kNumGlobalParams == 6
kLimiterThreshold == 1 * Scale
kMaxLookaheadSamples == (96000 * 20) \div 1000
kNumBusses == 28

\* enum ChannelParams
kChParamInput == 0
kChParamFeedback == 1
kChParamFeedbackCV == 2
kChParamFeedbackCVDepth == 3
kChParamPan == 4
kChParamPanCV == 5
kChParamPanCVDepth == 6

\* enum GlobalParams
kGlobalParamOutputL == 0
kGlobalParamOutputR == 1
kGlobalParamOutputMode == 2
kGlobalParamMasterLevel == 3
kGlobalParamLookahead == 4
kGlobalParamSaturation == 5

\* enum SaturationMode
kSaturationSoft == 0
kSaturationTube == 1
kSaturationHard == 2

CHANNEL_PARAM(ch, param) == ch * kParamsPerChannel + param
GLOBAL_PARAM_IDX(numInputs, param) == numInputs * kParamsPerChannel + param

(***************************************************************************)
(* Fixed-point arithmetic.                                                 *)
(***************************************************************************)
Abs(x) == IF x < 0 THEN -x ELSE x
Sign(x) == IF x < 0 THEN -1 ELSE 1

\* x / d rounded to the nearest integer (d > 0), halves away from zero
RoundDiv(x, d) ==
    IF x >= 0 THEN (2 * x + d) \div (2 * d) ELSE -((d - 2 * x) \div (2 * d))

\* x / d rounded away from zero (d > 0)
CeilDiv(x, d) ==
    IF x >= 0 THEN (x + d - 1) \div d ELSE -((d - 1 - x) \div d)

\* the product of two fixed-point numbers
Mul(a, b) == RoundDiv(a * b, Scale)

\* a fixed-point number times a coefficient
MulCoef(a, c) == RoundDiv(a * c, CoefScale)

\* x += coeff * (target - x)
OnePole(x, target, coeff) == x + CeilDiv(coeff * (target - x), CoefScale)

\* a percentage parameter / 100.0f
Percent(val) == RoundDiv(val * Scale, 100)

\* (x mod 2^32) mod b for -2^31 < x < 2^31: uint32_t arithmetic followed by % b
TwoPow32Mod(b) == (((2^16) % b) * ((2^16) % b)) % b
U32Mod(x, b) == IF x >= 0 THEN x % b ELSE ((x % b) + TwoPow32Mod(b)) % b

(***************************************************************************)
(* libm.  cosf and sinf on [0, pi/2] by their Taylor polynomials, tanhf by *)
(* the continued fraction x(945+105x^2+x^4)/(945+420x^2+15x^4) cut to      *)
(* [-1, 1]; each is within 2/Scale of the float function.  expf is         *)
(* evaluated at the sample rates the host runs at.                         *)
(***************************************************************************)
\* the square of an angle a (fixed point, 0 <= a <= 1.6), in millionths
AngleSq(a) == ((a * 1000) \div Scale) * ((a * 1000) \div Scale)

\* the square of s (s in millionths), in millionths
SqMillionths(s) == (s \div 1000) * (s \div 1000)

\* 1 - s/2 + s^2/24 - s^3/720 + s^4/40320 in millionths, q = s^2
CosSeries(s, q) ==
    (1000000 - (s \div 2)) + (q \div 24)
      - (((q \div 1000) * (s \div 1000)) \div 720)
      + (((q \div 1000) * (q \div 1000)) \div 40320)

\* 1 - s/6 + s^2/120 - s^3/5040 + s^4/362880 in millionths, q = s^2
SinSeries(s, q) ==
    (1000000 - (s \div 6)) + (q \div 120)
      - (((q \div 1000) * (s \div 1000)) \div 5040)
      + (((q \div 1000) * (q \div 1000)) \div 362880)

cosf(a) ==
    RoundDiv(CosSeries(AngleSq(a), SqMillionths(AngleSq(a))) * Scale, 1000000)

\* sin a = a * (1 - a^2/6 + a^4/120 - a^6/5040 + a^8/362880)
sinf(a) ==
    RoundDiv(a * RoundDiv(SinSeries(AngleSq(a), SqMillionths(AngleSq(a))), 1000), 1000)

tanhf(x) ==
    IF Abs(x) >= 4 * Scale THEN Sign(x) * Scale
    ELSE LET x2  == Mul(x, x)
             x4  == Mul(x2, x2)
             num == 945 * Scale + 105 * x2 + x4
             den == 945 * Scale + 420 * x2 + 15 * x4
             r   == (num * 100) \div (den \div 10)      \* num/den in thousandths
             t   == RoundDiv(x * r, 1000)
         IN  IF Abs(t) > Scale THEN Sign(x) * Scale ELSE t

\* 1 - expf(-6.28318f * hz / sr), as a coefficient
OneMinusExp(hz, sr) ==
    CASE sr = 48000 /\ hz = 30   -> 39
      [] sr = 48000 /\ hz = 50   -> 65
      [] sr = 48000 /\ hz = 1000 -> 1227
      [] sr = 96000 /\ hz = 30   -> 20
      [] sr = 96000 /\ hz = 50   -> 33
      [] sr = 96000 /\ hz = 1000 -> 634

(***************************************************************************)
(* DSP functions.                                                          *)
(***************************************************************************)
\* y[n] = x[n] - x[n-1] + R * y[n-1]; returns the output and the new x1, y1
dcBlock(input, x1, y1, R) ==
    LET output == input - x1 + MulCoef(y1, R)
    IN  [output |-> output, x1 |-> input, y1 |-> output]

\* pan: -100 to +100 (fixed point); returns <<gainL, gainR>>
equalPowerPan(pan) ==
    LET p     == RoundDiv(pan + 100 * Scale, 200)
        angle == MulCoef(p, 15708)
    IN  <<cosf(angle), sinf(angle)>>

saturateSoft(x) == tanhf(x)

saturateTube(x) ==
    IF x >= 0 THEN RoundDiv(tanhf(RoundDiv(x * 8, 10)) * 11, 10)
    ELSE RoundDiv(tanhf(RoundDiv(x * 12, 10)) * 9, 10)

saturateHard(x) ==
    LET knee == RoundDiv(8 * Scale, 10)
    IN  IF x > Scale THEN Scale
        ELSE IF x < -Scale THEN -Scale
        ELSE IF x > knee THEN knee + RoundDiv(x - knee, 2)
        ELSE IF x < -knee THEN -knee + RoundDiv(x + knee, 2)
        ELSE x

saturate(x, mode) ==
    CASE mode = kSaturationSoft -> saturateSoft(x)
      [] mode = kSaturationTube -> saturateTube(x)
      [] mode = kSaturationHard -> saturateHard(x)
      [] OTHER -> saturateSoft(x)

(***************************************************************************)
(* Parameters (buildParameters).  ParamDef gives <<min, max, def>> of the  *)
(* parameter at index p of an instance with numInputs channels.            *)
(***************************************************************************)
NumParams(numInputs) == numInputs * kParamsPerChannel + kNumGlobalParams

ChannelParamDef(ch, k) ==
    CASE k = kChParamInput           -> <<0, kNumBusses, ch + 1>>
      [] k = kChParamFeedback        -> <<0, 100, 0>>
      [] k = kChParamFeedbackCV      -> <<0, kNumBusses, 0>>
      [] k = kChParamFeedbackCVDepth -> <<0, 100, 50>>
      [] k = kChParamPan             -> <<-100, 100, 0>>
      [] k = kChParamPanCV           -> <<0, kNumBusses, 0>>
      [] k = kChParamPanCVDepth      -> <<0, 100, 50>>

GlobalParamDef(k) ==
    CASE k = kGlobalParamOutputL     -> <<1, kNumBusses, 13>>
      [] k = kGlobalParamOutputR     -> <<1, kNumBusses, 14>>
      [] k = kGlobalParamOutputMode  -> <<0, 1, 1>>
      [] k = kGlobalParamMasterLevel -> <<0, 100, 80>>
      [] k = kGlobalParamLookahead   -> <<5, 200, 50>>
      [] k = kGlobalParamSaturation  -> <<0, 2, 0>>

ParamDef(numInputs, p) ==
    IF p < numInputs * kParamsPerChannel
    THEN ChannelParamDef(p \div kParamsPerChannel, p % kParamsPerChannel)
    ELSE GlobalParamDef(p - numInputs * kParamsPerChannel)

(***************************************************************************)
(* Static parameter storage: allParameters, channelPageParams,             *)
(* outputPageParams, allPages and parameterPages, zero-initialised when    *)
(* the plug-in is loaded.  A parameter definition is held as its           *)
(* <<min, max, def>>; a page's params pointer as the array it points to.   *)
(***************************************************************************)
MaxParams == kMaxInputs * kParamsPerChannel + kNumGlobalParams

ZeroStatics ==
    [allParameters     |-> [p \in 0 .. (MaxParams - 1) |-> <<0, 0, 0>>],
     channelPageParams |-> [ch \in 0 .. (kMaxInputs - 1) |->
                               [k \in 0 .. (kParamsPerChannel - 1) |-> 0]],
     outputPageParams  |-> [k \in 0 .. (kNumGlobalParams - 1) |-> 0],
     allPages          |-> [pg \in 0 .. kMaxInputs |->
                               [name |-> <<>>, numParams |-> 0, params |-> <<>>]],
     parameterPages    |-> [numPages |-> 0, pages |-> <<>>]]

\* buildParameters(numInputs): the first NumParams(numInputs) slots are
\* written, the others keep what they held
buildParameters(st, numInputs) ==
    [st EXCEPT !.allParameters =
        [p \in 0 .. (MaxParams - 1) |->
            IF p < NumParams(numInputs) THEN ParamDef(numInputs, p)
            ELSE st.allParameters[p]]]

\* buildParameterPages(numInputs)
buildParameterPages(st, numInputs) ==
    [st EXCEPT
       !.channelPageParams =
           [ch \in 0 .. (kMaxInputs - 1) |->
               IF ch < numInputs
               THEN [k \in 0 .. (kParamsPerChannel - 1) |-> CHANNEL_PARAM(ch, k)]
               ELSE st.channelPageParams[ch]],
       !.outputPageParams =
           [k \in 0 .. (kNumGlobalParams - 1) |-> GLOBAL_PARAM_IDX(numInputs, k)],
       !.allPages =
           [pg \in 0 .. kMaxInputs |->
               IF pg < numInputs
               THEN [name      |-> <<"Input", pg + 1>>,
                     numParams |-> kParamsPerChannel,
                     params    |-> <<"channelPageParams", pg>>]
               ELSE IF pg = numInputs
               THEN [name      |-> <<"Output">>,
                     numParams |-> kNumGlobalParams,
                     params    |-> <<"outputPageParams">>]
               ELSE st.allPages[pg]],
       !.parameterPages = [numPages |-> numInputs + 1, pages |-> <<"allPages">>]]

(***************************************************************************)
(* Memory.  The lookahead buffer (DRAM, 2 * kMaxLookaheadSamples floats,   *)
(* zeroed by construct) is held as the function from the slots written so  *)
(* far to their contents; a slot never written reads as the zero memset    *)
(* left.  A read outside a region is undefined behaviour: it yields wild,  *)
(* a value the caller draws.  A write outside a region lands elsewhere and *)
(* leaves the region as it was.                                            *)
(***************************************************************************)
Load(mem, size, idx, wild) ==
    IF idx >= 0 /\ idx < size
    THEN (IF idx \in DOMAIN mem THEN mem[idx] ELSE 0)
    ELSE wild

Store(mem, size, idx, val) ==
    IF idx >= 0 /\ idx < size
    THEN (IF idx \in DOMAIN mem THEN [mem EXCEPT ![idx] = val] ELSE (idx :> val) @@ mem)
    ELSE mem

(***************************************************************************)
(* construct.  The instance is a record of the fields of _seymourAlgorithm *)
(* and _seymourDTC; v is the parameter array of _NT_algorithm, which the   *)
(* host fills with each parameter's def.                                   *)
(***************************************************************************)
Channels(numInputs) == 0 .. (numInputs - 1)

construct(sr, numInputs) ==
    [ parameters          |-> <<"allParameters">>,
      parameterPages      |-> <<"parameterPages">>,
      numInputs           |-> numInputs,
      v                   |-> [p \in 0 .. (NumParams(numInputs) - 1) |->
                                  ParamDef(numInputs, p)[3]],
      feedbackSmoothed    |-> [ch \in Channels(numInputs) |-> 0],
      panSmoothed         |-> [ch \in Channels(numInputs) |-> 0],
      feedbackState       |-> [ch \in Channels(numInputs) |-> 0],
      dcBlockerX1         |-> [ch \in Channels(numInputs) |-> 0],
      dcBlockerY1         |-> [ch \in Channels(numInputs) |-> 0],
      masterLevelSmoothed |-> RoundDiv(8 * Scale, 10),
      envelope            |-> 0,
      gainReduction       |-> 1 * Scale,
      writeIndex          |-> 0,
      dcBlockerCoeff      |-> CoefScale - RoundDiv(31416 * CoefScale, 1000 * sr),
      smoothingCoeff      |-> OneMinusExp(50, sr),
      envelopeAttack      |-> OneMinusExp(1000, sr),
      envelopeRelease     |-> OneMinusExp(50, sr),
      gainSmoothingCoeff  |-> OneMinusExp(30, sr),
      lookaheadSamples    |-> (sr * 5) \div 1000,
      bufferSize          |-> kMaxLookaheadSamples,
      lookaheadBuffer     |-> [k \in {} |-> 0] ]

(***************************************************************************)
(* parameterChanged(self, p), with NT_globals.sampleRate = sr.             *)
(***************************************************************************)
\* (uint32_t)(sampleRate * (v / 10.0f) / 1000.0f)
LookaheadParamSamples(sr, val) == (sr * val) \div 10000

\* clamp to buffer size
ClampSamples(samples, bufferSize) ==
    IF samples > bufferSize THEN bufferSize
    ELSE IF samples < 1 THEN 1
    ELSE samples

\* the store that also rewinds the write index
StoreLookaheadRewinding(alg, samples) ==
    [alg EXCEPT !.lookaheadSamples = samples, !.writeIndex = 0]

\* dtc->lookaheadSamples = samples
StoreLookahead(alg, samples) == [alg EXCEPT !.lookaheadSamples = samples]

parameterChanged(alg, sr, p) ==
    IF p = GLOBAL_PARAM_IDX(alg.numInputs, kGlobalParamLookahead)
    THEN StoreLookahead(alg, ClampSamples(LookaheadParamSamples(sr, alg.v[p]),
                                          alg.bufferSize))
    ELSE alg

(***************************************************************************)
(* step(self, busFrames, numFramesBy4).  busFrames is the host's bus       *)
(* memory, kNumBusses * numFrames floats, bus b at b * numFrames.          *)
(*                                                                         *)
(* s is the state of the call: the frame loop's counter, the locals step   *)
(* sets up before the loop, the instance, the bus memory, the bus indices  *)
(* read and written and the record of the frames processed.  f is the      *)
(* state of one pass of the frame loop: its locals, with the instance and  *)
(* the bus memory.  c holds the locals of one pass of the channel loop.    *)
(* Each operator is one group of statements and assigns its part.          *)
(***************************************************************************)
BusSize(numFrames) == kNumBusses * numFrames

\* the locals set up before the frame loop
StepLocals(alg, numFrames) ==
    [numFrames    |-> numFrames,
     outLBus      |-> alg.v[GLOBAL_PARAM_IDX(alg.numInputs, kGlobalParamOutputL)] - 1,
     outRBus      |-> alg.v[GLOBAL_PARAM_IDX(alg.numInputs, kGlobalParamOutputR)] - 1,
     replace      |-> alg.v[GLOBAL_PARAM_IDX(alg.numInputs, kGlobalParamOutputMode)] # 0,
     masterTarget |-> Percent(alg.v[GLOBAL_PARAM_IDX(alg.numInputs,
                                                     kGlobalParamMasterLevel)]),
     satMode      |-> alg.v[GLOBAL_PARAM_IDX(alg.numInputs, kGlobalParamSaturation)],
     bufSize      |-> alg.bufferSize,
     lookahead    |-> alg.lookaheadSamples,
     dram         |-> 2 * kMaxLookaheadSamples]

\* the locals of frame s.i, before the pass assigns them
BeginFrame(s) ==
    [i             |-> s.i,
     wild          |-> s.wild,
     loc           |-> s.loc,
     alg           |-> s.alg,
     bus           |-> s.bus,
     idxL          |-> s.loc.outLBus * s.loc.numFrames + s.i,
     idxR          |-> s.loc.outRBus * s.loc.numFrames + s.i,
     prevL         |-> Load(s.bus, BusSize(s.loc.numFrames),
                            s.loc.outLBus * s.loc.numFrames + s.i, s.wild),
     prevR         |-> Load(s.bus, BusSize(s.loc.numFrames),
                            s.loc.outRBus * s.loc.numFrames + s.i, s.wild),
     lookahead     |-> s.loc.lookahead,
     reads         |-> {},
     writes        |-> {},
     chans         |-> <<>>,
     premixL       |-> 0,
     premixR       |-> 0,
     master        |-> 0,
     mixL          |-> 0,
     mixR          |-> 0,
     writeIdx      |-> 0,
     readIdx       |-> 0,
     delayedL      |-> 0,
     delayedR      |-> 0,
     peakIn        |-> 0,
     envBefore     |-> s.alg.envelope,
     envelope      |-> 0,
     targetGain    |-> 0,
     grBefore      |-> s.alg.gainReduction,
     gainReduction |-> 0,
     limitedL      |-> 0,
     limitedR      |-> 0,
     finalL        |-> 0,
     finalR        |-> 0,
     outL          |-> 0,
     outR          |-> 0]

\* the channel's input sample read whatever the bus parameter is
InputSampleUnguarded(f, ch) ==
    [value |-> Load(f.bus, BusSize(f.loc.numFrames),
                    (f.alg.v[CHANNEL_PARAM(ch, kChParamInput)] - 1) * f.loc.numFrames + f.i,
                    f.wild),
     reads |-> {(f.alg.v[CHANNEL_PARAM(ch, kChParamInput)] - 1) * f.loc.numFrames + f.i}]

\* the channel's input sample: silence when the bus parameter is 0
InputSample(f, ch) ==
    LET inBus == f.alg.v[CHANNEL_PARAM(ch, kChParamInput)] - 1
    IN  IF inBus >= 0
        THEN [value |-> Load(f.bus, BusSize(f.loc.numFrames),
                             inBus * f.loc.numFrames + f.i, f.wild),
              reads |-> {inBus * f.loc.numFrames + f.i}]
        ELSE [value |-> 0, reads |-> {}]

\* a CV sample of bus cvBus as 0..1: bipolar +/-5V, clamped
UnipolarCV(f, cvBus) ==
    LET cv == RoundDiv(RoundDiv(Load(f.bus, BusSize(f.loc.numFrames),
                                     cvBus * f.loc.numFrames + f.i, f.wild), 5), 2)
                + RoundDiv(Scale, 2)
    IN  IF cv < 0 THEN 0 ELSE IF cv > Scale THEN Scale ELSE cv

\* feedback amount with CV modulation
FeedbackTarget(f, ch) ==
    LET fbBase    == Percent(f.alg.v[CHANNEL_PARAM(ch, kChParamFeedback)])
        fbCVBus   == f.alg.v[CHANNEL_PARAM(ch, kChParamFeedbackCV)] - 1
        fbCVDepth == Percent(f.alg.v[CHANNEL_PARAM(ch, kChParamFeedbackCVDepth)])
    IN  IF fbCVBus >= 0
        THEN [value |-> Mul(fbBase, Scale - fbCVDepth)
                          + Mul(UnipolarCV(f, fbCVBus), fbCVDepth),
              reads |-> {fbCVBus * f.loc.numFrames + f.i}]
        ELSE [value |-> fbBase, reads |-> {}]

\* a pan position clamped to -100..100
ClampPan(pan) ==
    IF pan < -100 * Scale THEN -100 * Scale
    ELSE IF pan > 100 * Scale THEN 100 * Scale
    ELSE pan

\* pan with CV modulation
PanTarget(f, ch) ==
    LET panBase    == f.alg.v[CHANNEL_PARAM(ch, kChParamPan)] * Scale
        panCVBus   == f.alg.v[CHANNEL_PARAM(ch, kChParamPanCV)] - 1
        panCVDepth == Percent(f.alg.v[CHANNEL_PARAM(ch, kChParamPanCVDepth)])
    IN  IF panCVBus >= 0
        THEN [value |-> ClampPan(panBase
                          + Mul(RoundDiv(Load(f.bus, BusSize(f.loc.numFrames),
                                              panCVBus * f.loc.numFrames + f.i,
                                              f.wild), 5) * 100, panCVDepth)),
              reads |-> {panCVBus * f.loc.numFrames + f.i}]
        ELSE [value |-> panBase, reads |-> {}]

\* the feedback tap taken from the first channel's state
FeedbackTapFirstLane(alg, ch) == alg.feedbackState[0]

\* the feedback tap of channel ch: its previous processed sample
FeedbackTap(alg, ch) == alg.feedbackState[ch]

\* input, feedback amount and pan position of channel ch
ReadChannel(f, ch) ==
    LET in == InputSample(f, ch)
        fb == FeedbackTarget(f, ch)
        pt == PanTarget(f, ch)
    IN  [input          |-> in.value,
         fbTarget       |-> fb.value,
         panTarget      |-> pt.value,
         reads          |-> in.reads \cup fb.reads \cup pt.reads,
         feedback       |-> 0,
         tap            |-> 0,
         feedbackSample |-> 0,
         processed      |-> 0,
         x1             |-> 0,
         y1             |-> 0,
         pan            |-> 0,
         gainL          |-> 0,
         gainR          |-> 0]

\* smooth feedback and pan
SmoothChannel(c, alg, ch) ==
    [c EXCEPT
       !.feedback = OnePole(alg.feedbackSmoothed[ch], c.fbTarget, alg.smoothingCoeff),
       !.tap      = FeedbackTap(alg, ch),
       !.pan      = OnePole(alg.panSmoothed[ch], c.panTarget, alg.smoothingCoeff)]

\* apply feedback with DC blocking
ApplyFeedback(c, alg, ch) ==
    LET dc == dcBlock(c.input + Mul(c.tap, c.feedback),
                      alg.dcBlockerX1[ch], alg.dcBlockerY1[ch], alg.dcBlockerCoeff)
    IN  [c EXCEPT !.feedbackSample = Mul(c.tap, c.feedback),
                  !.processed      = dc.output,
                  !.x1             = dc.x1,
                  !.y1             = dc.y1]

\* equal-power pan gains
PanGains(c) ==
    LET gains == equalPowerPan(c.pan)
    IN  [c EXCEPT !.gainL = gains[1], !.gainR = gains[2]]

\* store the channel's state and mix to stereo
MixChannel(f, ch, c) ==
    [f EXCEPT
       !.alg.feedbackSmoothed[ch] = c.feedback,
       !.alg.dcBlockerX1[ch]      = c.x1,
       !.alg.dcBlockerY1[ch]      = c.y1,
       !.alg.feedbackState[ch]    = c.processed,
       !.alg.panSmoothed[ch]      = c.pan,
       !.premixL = f.premixL + Mul(c.processed, c.gainL),
       !.premixR = f.premixR + Mul(c.processed, c.gainR),
       !.reads   = f.reads \cup c.reads,
       !.chans   = Append(f.chans, c)]

ProcessChannel(f, ch) ==
    MixChannel(f, ch,
        PanGains(ApplyFeedback(SmoothChannel(ReadChannel(f, ch), f.alg, ch),
                               f.alg, ch)))

\* for (int ch = 0; ch < numInputs; ++ch)
RECURSIVE ChannelLoop(_, _)
ChannelLoop(f, ch) ==
    IF ch >= f.alg.numInputs THEN f
    ELSE ChannelLoop(ProcessChannel(f, ch), ch + 1)

\* smooth master level
SmoothMaster(f) ==
    [f EXCEPT !.master = OnePole(f.alg.masterLevelSmoothed, f.loc.masterTarget,
                                 f.alg.smoothingCoeff)]

\* apply master level
ApplyMaster(f) ==
    [f EXCEPT !.alg.masterLevelSmoothed = f.master,
              !.mixL = Mul(f.premixL, f.master),
              !.mixR = Mul(f.premixR, f.master)]

\* the read index computed without the wrap to the buffer size
ReadIndexUnwrapped(writeIdx, bufSize, lookahead) == writeIdx + bufSize - lookahead

\* readIdx = (writeIdx + bufSize - lookahead) % bufSize, in uint32_t
ReadIndex(writeIdx, bufSize, lookahead) ==
    U32Mod(writeIdx + bufSize - lookahead, bufSize)

\* write to lookahead buffer; read index
WriteLookahead(f) ==
    [f EXCEPT
       !.writeIdx = f.alg.writeIndex,
       !.alg.lookaheadBuffer =
           Store(Store(f.alg.lookaheadBuffer, f.loc.dram, f.alg.writeIndex * 2, f.mixL),
                 f.loc.dram, f.alg.writeIndex * 2 + 1, f.mixR),
       !.readIdx = ReadIndex(f.alg.writeIndex, f.loc.bufSize, f.loc.lookahead)]

\* read from lookahead buffer (delayed signal); peak detection on the
\* current (non-delayed) signal
ReadLookahead(f) ==
    [f EXCEPT
       !.delayedL = Load(f.alg.lookaheadBuffer, f.loc.dram, f.readIdx * 2, f.wild),
       !.delayedR = Load(f.alg.lookaheadBuffer, f.loc.dram, f.readIdx * 2 + 1, f.wild),
       !.peakIn   = IF Abs(f.mixL) > Abs(f.mixR) THEN Abs(f.mixL) ELSE Abs(f.mixR)]

\* the limiter with the ratio of its target gain inverted
LimiterGainInverted(alg, peakIn) ==
    LET envCoeff   == IF peakIn > alg.envelope THEN alg.envelopeAttack
                      ELSE alg.envelopeRelease
        envelope   == OnePole(alg.envelope, peakIn, envCoeff)
        targetGain == IF envelope > kLimiterThreshold
                      THEN RoundDiv(envelope * Scale, kLimiterThreshold)
                      ELSE 1 * Scale
    IN  [envelope      |-> envelope,
         targetGain    |-> targetGain,
         gainReduction |-> OnePole(alg.gainReduction, targetGain,
                                   alg.gainSmoothingCoeff)]

\* envelope follower, target gain and gain smoothing
LimiterGain(alg, peakIn) ==
    LET envCoeff   == IF peakIn > alg.envelope THEN alg.envelopeAttack
                      ELSE alg.envelopeRelease
        envelope   == OnePole(alg.envelope, peakIn, envCoeff)
        targetGain == IF envelope > kLimiterThreshold
                      THEN RoundDiv(kLimiterThreshold * Scale, envelope)
                      ELSE 1 * Scale
    IN  [envelope      |-> envelope,
         targetGain    |-> targetGain,
         gainReduction |-> OnePole(alg.gainReduction, targetGain,
                                   alg.gainSmoothingCoeff)]

Limit(f) ==
    LET lim == LimiterGain(f.alg, f.peakIn)
    IN  [f EXCEPT !.envelope          = lim.envelope,
                  !.targetGain        = lim.targetGain,
                  !.gainReduction     = lim.gainReduction,
                  !.alg.envelope      = lim.envelope,
                  !.alg.gainReduction = lim.gainReduction]

\* apply gain reduction to the delayed signal
ApplyGain(f) ==
    [f EXCEPT !.limitedL = Mul(f.delayedL, f.gainReduction),
              !.limitedR = Mul(f.delayedR, f.gainReduction)]

\* apply saturation; advance write index
Saturate(f) ==
    [f EXCEPT !.finalL = saturate(f.limitedL, f.loc.satMode),
              !.finalR = saturate(f.limitedR, f.loc.satMode),
              !.alg.writeIndex = U32Mod(f.writeIdx + 1, f.loc.bufSize)]

\* the output of a frame written without regard to the mode
WriteOutputReplacing(bus, size, idxL, idxR, finalL, finalR, replace, wild) ==
    Store(Store(bus, size, idxL, finalL), size, idxR, finalR)

\* the output of a frame: overwrite or add, left then right
WriteOutput(bus, size, idxL, idxR, finalL, finalR, replace, wild) ==
    IF replace
    THEN Store(Store(bus, size, idxL, finalL), size, idxR, finalR)
    ELSE LET afterL == Store(bus, size, idxL, Load(bus, size, idxL, wild) + finalL)
         IN  Store(afterL, size, idxR, Load(afterL, size, idxR, wild) + finalR)

Written(f, bus) ==
    [f EXCEPT !.bus    = bus,
              !.outL   = Load(bus, BusSize(f.loc.numFrames), f.idxL, f.wild),
              !.outR   = Load(bus, BusSize(f.loc.numFrames), f.idxR, f.wild),
              !.reads  = f.reads \cup (IF f.loc.replace THEN {} ELSE {f.idxL, f.idxR}),
              !.writes = {f.idxL, f.idxR}]

Output(f) ==
    Written(f, WriteOutput(f.bus, BusSize(f.loc.numFrames), f.idxL, f.idxR,
                           f.finalL, f.finalR, f.loc.replace, f.wild))

\* what a pass leaves of its locals in the record of frames
FrameFields(f) == DOMAIN f \ {"alg", "bus", "loc", "wild", "reads", "writes"}

EndFrame(s, f) ==
    [s EXCEPT !.i      = f.i + 1,
              !.alg    = f.alg,
              !.bus    = f.bus,
              !.reads  = s.reads \cup f.reads,
              !.writes = s.writes \cup f.writes,
              !.frames = Append(s.frames, [k \in FrameFields(f) |-> f[k]])]

ProcessFrame(s) ==
    EndFrame(s,
        Output(Saturate(ApplyGain(Limit(ReadLookahead(WriteLookahead(
            ApplyMaster(SmoothMaster(ChannelLoop(BeginFrame(s), 0))))))))))

\* for (int i = 0; i < numFrames; ++i)
RECURSIVE FrameLoop(_)
FrameLoop(s) ==
    IF s.i >= s.loc.numFrames THEN s ELSE FrameLoop(ProcessFrame(s))

step(alg, busFrames, numFramesBy4, wild) ==
    FrameLoop([i      |-> 0,
               wild   |-> wild,
               loc    |-> StepLocals(alg, numFramesBy4 * 4),
               alg    |-> alg,
               bus    |-> busFrames,
               reads  |-> {},
               writes |-> {},
               frames |-> <<>>])

(***************************************************************************)
(* The host.  It runs the instance at one of its sample rates, sets        *)
(* parameters within their declared ranges and calls parameterChanged,     *)
(* fills the busses and calls step.  inst, busFrames, lastCall and history *)
(* are indexed by run: one run of the program, or two runs side by side    *)
(* whose hosts differ in a stated respect.                                 *)
(***************************************************************************)
VARIABLES
    sampleRate,   \* NT_globals.sampleRate
    inst,         \* run -> the instance (_seymourAlgorithm and its _seymourDTC)
    busFrames,    \* run -> the bus memory as the last step call left it
    lastCall,     \* run -> what the last step call was given, read and wrote
    history,      \* run -> the frames processed since construct, oldest first
    calls,        \* number of step calls so far
    changes,      \* number of parameter changes so far
    pending,      \* the parameterChanged call in progress, if any
    statics       \* the static parameter storage of the plug-in

vars == <<sampleRate, inst, busFrames, lastCall, history, calls, changes, pending, statics>>

Runs == DOMAIN inst

SampleRates == {48000, 96000}
WildValues == {-3 * Scale, 3 * Scale}

\* the values the host sets parameter p to
HostValues(numInputs, p) ==
    IF p < numInputs * kParamsPerChannel
    THEN CASE p % kParamsPerChannel = kChParamInput           -> {0}
           [] p % kParamsPerChannel = kChParamFeedback        -> {100}
           [] p % kParamsPerChannel = kChParamFeedbackCV      -> {4}
           [] p % kParamsPerChannel = kChParamFeedbackCVDepth -> {}
           [] p % kParamsPerChannel = kChParamPan             -> {}
           [] p % kParamsPerChannel = kChParamPanCV           -> {5}
           [] p % kParamsPerChannel = kChParamPanCVDepth      -> {}
    ELSE CASE p - numInputs * kParamsPerChannel = kGlobalParamLookahead   -> {5, 200}
           [] OTHER -> {}

\* what the host puts on bus b at frame i
Level(pat, b, i) ==
    CASE pat = "quiet"  -> RoundDiv(Scale, 2) + (b % 2) * RoundDiv(Scale, 8)
                             + i * RoundDiv(Scale, 100)
      [] pat = "loud"   -> IF b % 2 = 0 THEN (4 + i) * Scale ELSE -3 * Scale
      [] pat = "silent" -> 0

Patterns == {"quiet", "loud"}

BusFill(pat, numFrames) ==
    [k \in 0 .. (BusSize(numFrames) - 1) |-> Level(pat, k \div numFrames, k % numFrames)]

NoCall == [numFrames |-> 0, v |-> <<>>, busIn |-> <<>>, reads |-> {}, writes |-> {},
           first |-> 1]

\* no parameterChanged call is in progress
NoChange == [pc |-> "none"]

InitRuns(runs, numInputs) ==
    /\ sampleRate \in SampleRates
    /\ inst = [r \in runs |-> construct(sampleRate, numInputs)]
    /\ busFrames = [r \in runs |-> <<>>]
    /\ lastCall = [r \in runs |-> NoCall]
    /\ history = [r \in runs |-> <<>>]
    /\ calls = 0
    /\ changes = 0
    /\ pending = NoChange
    /\ statics = buildParameterPages(buildParameters(ZeroStatics, numInputs), numInputs)

\* the host stores vals[r] in v[p] of run r and calls parameterChanged(p)
SetParameter(p, vals) ==
    /\ inst' = [r \in Runs |->
                   parameterChanged([inst[r] EXCEPT !.v[p] = vals[r]], sampleRate, p)]
    /\ changes' = changes + 1
    /\ UNCHANGED <<sampleRate, busFrames, lastCall, history, calls, pending, statics>>

\* step has returned res[r] in run r
Returned(res, numFramesBy4, fills) ==
    /\ inst' = [r \in Runs |-> res[r].alg]
    /\ busFrames' = [r \in Runs |-> res[r].bus]
    /\ lastCall' = [r \in Runs |->
                       [numFrames |-> numFramesBy4 * 4,
                        v         |-> inst[r].v,
                        busIn     |-> fills[r],
                        reads     |-> res[r].reads,
                        writes    |-> res[r].writes,
                        first     |-> Len(history[r]) + 1]]
    /\ history' = [r \in Runs |-> history[r] \o res[r].frames]
    /\ calls' = calls + 1
    /\ UNCHANGED <<sampleRate, changes, pending, statics>>

\* every read of the call fell inside the array it read
InBounds(res) ==
    /\ \A idx \in res.reads : idx >= 0 /\ idx < BusSize(res.loc.numFrames)
    /\ \A k \in DOMAIN res.frames :
         res.frames[k].readIdx >= 0 /\ res.frames[k].readIdx * 2 + 1 < res.loc.dram

\* the calls of step in every run, wild being what a read outside an array yields
StepRuns(numFramesBy4, fills, wild) ==
    [r \in Runs |-> step(inst[r], fills[r], numFramesBy4, wild)]

\* a call with no read outside an array has one outcome, whatever wild is
Outcomes(res, numFramesBy4, fills) ==
    IF \A r \in Runs : InBounds(res[r])
    THEN Returned(res, numFramesBy4, fills)
    ELSE \E wild \in WildValues :
           Returned(StepRuns(numFramesBy4, fills, wild), numFramesBy4, fills)

\* the host fills the busses of run r with fills[r] and calls step
ProcessBlock(numFramesBy4, fills) ==
    Outcomes(StepRuns(numFramesBy4, fills, CHOOSE wild \in WildValues : TRUE),
             numFramesBy4, fills)

(***************************************************************************)
(* An unrecorded stretch: before its first recorded call the host runs the *)
(* instance for 4 * framesBy4 frames with pattern pat on the busses, in     *)
(* calls of at most 4 * IdleBlockBy4 frames.  Its frames are not recorded  *)
(* in history.  An idle stretch carries silence.                           *)
(***************************************************************************)

IdleDone(s, numFramesBy4, res) ==
    [alg      |-> res.alg,
     left     |-> s.left - numFramesBy4,
     pat      |-> s.pat,
     wild     |-> s.wild,
     inBounds |-> s.inBounds /\ InBounds(res)]

IdleBlock(s, numFramesBy4) ==
    IdleDone(s, numFramesBy4,
             step(s.alg, BusFill(s.pat, numFramesBy4 * 4), numFramesBy4, s.wild))

RECURSIVE IdleLoop(_)
IdleLoop(s) ==
    IF s.left = 0 THEN s
    ELSE IdleLoop(IdleBlock(s, IF s.left > IdleBlockBy4 THEN IdleBlockBy4 ELSE s.left))

IdleRuns(framesBy4, pat, wild) ==
    [r \in Runs |-> IdleLoop([alg |-> inst[r], left |-> framesBy4, pat |-> pat,
                              wild |-> wild, inBounds |-> TRUE])]

Idled(res) ==
    /\ inst' = [r \in Runs |-> res[r].alg]
    /\ UNCHANGED <<sampleRate, busFrames, lastCall, history, calls, changes, pending,
                   statics>>

IdleOutcomes(framesBy4, pat, res) ==
    IF \A r \in Runs : res[r].inBounds
    THEN Idled(res)
    ELSE \E wild \in WildValues : Idled(IdleRuns(framesBy4, pat, wild))

\* the host has made no recorded call and run no idle stretch yet
Fresh == calls = 0 /\ \A r \in Runs : inst[r].writeIndex = 0

IdleFor(framesBy4, pat) ==
    /\ Fresh
    /\ IdleOutcomes(framesBy4, pat,
                    IdleRuns(framesBy4, pat, CHOOSE wild \in WildValues : TRUE))

(***************************************************************************)
(* One run.                                                                *)
(***************************************************************************)
Same(x) == [r \in Runs |-> x]

ChangeParameter ==
    /\ changes < MaxParamChanges
    /\ \E p \in DOMAIN inst[1].v :
         \E val \in HostValues(inst[1].numInputs, p) : SetParameter(p, Same(val))

CallStep ==
    /\ calls < MaxCalls
    /\ \E pat \in Patterns : ProcessBlock(1, Same(BusFill(pat, 4)))

Idle == changes = 0 /\ IdleFor(IdleFramesBy4, "silent")

Init == InitRuns({1}, 1)

Next == ChangeParameter \/ CallStep \/ Idle

Spec == Init /\ [][Next]_vars

(***************************************************************************)
(* One run brought to rest: the host sets the master level and the         *)
(* lookahead time, lets the smoothers settle over an idle stretch and then *)
(* calls step with blocks long enough to hear the delayed signal.          *)
(***************************************************************************)
SettleValues(numInputs, p) ==
    CASE p = GLOBAL_PARAM_IDX(numInputs, kGlobalParamMasterLevel) -> {100}
      [] p = GLOBAL_PARAM_IDX(numInputs, kGlobalParamLookahead)   -> {5, 200}
      [] OTHER -> {}

SettleParameter ==
    /\ Fresh
    /\ changes < MaxSettleChanges
    /\ \E p \in DOMAIN inst[1].v :
         \E val \in SettleValues(inst[1].numInputs, p) : SetParameter(p, Same(val))

Settle == IdleFor(SettleFramesBy4, "silent")

CallSettled ==
    /\ calls < MaxSettleCalls
    /\ \E pat \in Patterns :
         ProcessBlock(SettleBlockBy4, Same(BusFill(pat, 4 * SettleBlockBy4)))

NextSettle == SettleParameter \/ Settle \/ CallSettled

SpecSettle == Init /\ [][NextSettle]_vars

(***************************************************************************)
(* One run with its output routed: the host warms the instance up with a   *)
(* signal until the lookahead buffer delivers it, sets the output busses   *)
(* and the output mode, and calls step.                                    *)
(***************************************************************************)
OutputValues(numInputs, p) ==
    CASE p = GLOBAL_PARAM_IDX(numInputs, kGlobalParamOutputL)    -> {1}
      [] p = GLOBAL_PARAM_IDX(numInputs, kGlobalParamOutputR)    -> {13}
      [] p = GLOBAL_PARAM_IDX(numInputs, kGlobalParamOutputMode) -> {0}
      [] OTHER -> {}

ChangeOutput ==
    /\ changes < MaxOutputChanges
    /\ \E p \in DOMAIN inst[1].v :
         \E val \in OutputValues(inst[1].numInputs, p) : SetParameter(p, Same(val))

WarmUp == changes = 0 /\ IdleFor(WarmFramesBy4, "quiet")

NextOutput == ChangeOutput \/ WarmUp \/ CallStep

SpecOutput == Init /\ [][NextOutput]_vars

(***************************************************************************)
(* Two runs of a two-channel instance side by side.  Their hosts do the    *)
(* same, except that they set the feedback of channel 0 differently and    *)
(* put different signals on the bus channel 0 reads.                       *)
(***************************************************************************)
InitIsolation == InitRuns({1, 2}, 2)

\* the feedback of channel 0 in run 1 and in run 2
FeedbackPairs == {<<0, 100>>, <<100, 50>>}

\* what both hosts set alike: feedback and pan of channel 1
SharedValues(p) ==
    CASE p = CHANNEL_PARAM(1, kChParamFeedback) -> {100}
      [] p = CHANNEL_PARAM(1, kChParamPan)      -> {-50}
      [] OTHER -> {}

\* the bus memory of run 2: that of run 1 but for the bus channel 0 reads
OtherInput(fill, pat, numFrames) ==
    [k \in DOMAIN fill |->
        IF k \div numFrames = inst[2].v[CHANNEL_PARAM(0, kChParamInput)] - 1
        THEN Level(pat, k \div numFrames, k % numFrames)
        ELSE fill[k]]

ChangeFirstChannel ==
    /\ changes < MaxIsolationChanges
    /\ \E pair \in FeedbackPairs :
         SetParameter(CHANNEL_PARAM(0, kChParamFeedback), [r \in Runs |-> pair[r]])

ChangeShared ==
    /\ changes < MaxIsolationChanges
    /\ \E p \in DOMAIN inst[1].v : \E val \in SharedValues(p) : SetParameter(p, Same(val))

CallIsolated ==
    /\ calls < MaxCalls
    /\ \E pat \in Patterns : \E other \in Patterns \ {pat} :
         ProcessBlock(1, [r \in Runs |->
                             IF r = 1 THEN BusFill(pat, 4)
                             ELSE OtherInput(BusFill(pat, 4), other, 4)])

NextIsolation == ChangeFirstChannel \/ ChangeShared \/ CallIsolated

SpecIsolation == InitIsolation /\ [][NextIsolation]_vars

(***************************************************************************)
(* Two runs of a one-channel instance side by side.  Their hosts do the    *)
(* same, except for the master level they set.                             *)
(***************************************************************************)
InitMaster == InitRuns({1, 2}, 1)

MasterLevels == {0, 50, 100}

ChangeMaster ==
    /\ changes < MaxParamChanges
    /\ \E a \in MasterLevels : \E b \in MasterLevels :
         SetParameter(GLOBAL_PARAM_IDX(inst[1].numInputs, kGlobalParamMasterLevel),
                      [r \in Runs |-> IF r = 1 THEN a ELSE b])

NextMaster == ChangeMaster \/ CallStep

SpecMaster == InitMaster /\ [][NextMaster]_vars

(***************************************************************************)
(* One run in which parameterChanged and step interleave: the host calls   *)
(* them from different contexts.  parameterChanged(p) reads v[p] and       *)
(* converts it into the local samples, clamps the local, and stores it in  *)
(* dtc->lookaheadSamples; for another parameter it returns at once.  step  *)
(* reads dtc->lookaheadSamples once, before its frame loop, so a step call *)
(* falls between two of these steps.                                       *)
(***************************************************************************)
RaceValues(numInputs, p) ==
    CASE p = GLOBAL_PARAM_IDX(numInputs, kGlobalParamLookahead) -> {5, 200}
      [] p = CHANNEL_PARAM(0, kChParamFeedback)                 -> {100}
      [] OTHER -> {}

\* parameterChanged(p) up to the conversion
Entered(p, val) ==
    IF p = GLOBAL_PARAM_IDX(inst[1].numInputs, kGlobalParamLookahead)
    THEN [pc |-> "clamp", p |-> p, samples |-> LookaheadParamSamples(sampleRate, val),
          since |-> calls]
    ELSE NoChange

EnterParameterChanged ==
    /\ pending = NoChange
    /\ changes < MaxParamChanges
    /\ \E p \in DOMAIN inst[1].v : \E val \in RaceValues(inst[1].numInputs, p) :
         /\ inst' = [r \in Runs |-> [inst[r] EXCEPT !.v[p] = val]]
         /\ pending' = Entered(p, val)
    /\ changes' = changes + 1
    /\ UNCHANGED <<sampleRate, busFrames, lastCall, history, calls, statics>>

ClampPending ==
    /\ pending.pc = "clamp"
    /\ pending' = [pending EXCEPT !.pc = "store",
                                  !.samples = ClampSamples(@, inst[1].bufferSize)]
    /\ UNCHANGED <<sampleRate, inst, busFrames, lastCall, history, calls, changes, statics>>

StorePending ==
    /\ pending.pc = "store"
    /\ inst' = [r \in Runs |-> StoreLookahead(inst[r], pending.samples)]
    /\ pending' = NoChange
    /\ UNCHANGED <<sampleRate, busFrames, lastCall, history, calls, changes, statics>>

NextRace == EnterParameterChanged \/ ClampPending \/ StorePending \/ CallStep

SpecRace == Init /\ [][NextRace]_vars

(***************************************************************************)
(* Several instances in one plug-in: the host constructs a first instance  *)
(* and then others, each with a channel count of its choice.  Run r is the *)
(* r-th instance constructed.  construct rebuilds the static parameter     *)
(* storage and points the new instance at it.                              *)
(***************************************************************************)
\* specifications[0]: min 1, max 8
InstanceSizes == 1 .. kMaxInputs

InitInstances == \E numInputs \in InstanceSizes : InitRuns({1}, numInputs)

\* f extended to the new run
WithRun(f, new, val) == [r \in DOMAIN f \cup {new} |-> IF r = new THEN val ELSE f[r]]

Constructed(new, numInputs) ==
    /\ statics' = buildParameterPages(buildParameters(statics, numInputs), numInputs)
    /\ inst' = WithRun(inst, new, construct(sampleRate, numInputs))
    /\ busFrames' = WithRun(busFrames, new, <<>>)
    /\ lastCall' = WithRun(lastCall, new, NoCall)
    /\ history' = WithRun(history, new, <<>>)
    /\ UNCHANGED <<sampleRate, calls, changes, pending>>

ConstructAnother ==
    /\ Cardinality(Runs) < MaxInstances
    /\ \E numInputs \in InstanceSizes : Constructed(Cardinality(Runs) + 1, numInputs)

NextInstances == ConstructAnother

SpecInstances == InitInstances /\ [][NextInstances]_vars

(***************************************************************************)
(* Properties.  history[r][k] is the k-th recorded frame of run r and       *)
(* lastCall[r] the last recorded call; capacity is bufferSize.              *)
(***************************************************************************)
Capacity(r) == inst[r].bufferSize

\* the recorded frames of the last call of run r
LastFrames(r) == lastCall[r].first .. Len(history[r])

\* C1: after construct and any parameterChanged and step calls,
\* lookaheadSamples is in [1, capacity], writeIndex is in [0, capacity), and
\* the write and read index of every frame are in [0, capacity), so every
\* access to the lookahead buffer lies inside its 2 * capacity floats.
C1_IndexSafety ==
    \A r \in Runs :
      /\ inst[r].lookaheadSamples >= 1
      /\ inst[r].lookaheadSamples <= Capacity(r)
      /\ inst[r].writeIndex >= 0
      /\ inst[r].writeIndex < Capacity(r)
      /\ \A k \in DOMAIN history[r] :
           /\ history[r][k].writeIdx >= 0
           /\ history[r][k].writeIdx < Capacity(r)
           /\ history[r][k].readIdx >= 0
           /\ history[r][k].readIdx < Capacity(r)
           /\ history[r][k].readIdx * 2 + 1 < 2 * kMaxLookaheadSamples
           /\ history[r][k].writeIdx * 2 + 1 < 2 * kMaxLookaheadSamples
      /\ \A idx \in DOMAIN inst[r].lookaheadBuffer :
           idx >= 0 /\ idx < 2 * kMaxLookaheadSamples

\* C1 happens: the lookahead parameter was set to its maximum at 96 kHz
\* (lookaheadSamples = capacity), a frame wrote the last slot, the write
\* index wrapped to the start and later frames wrote and read there
C1_Reached ==
    /\ sampleRate = 96000
    /\ inst[1].lookaheadSamples = Capacity(1)
    /\ \E k \in DOMAIN history[1] : history[1][k].writeIdx = Capacity(1) - 1
    /\ \E k \in DOMAIN history[1] :
         /\ history[1][k].writeIdx = 1
         /\ history[1][k].readIdx = 1
    /\ inst[1].writeIndex = 4

\* C2: with the lookahead length L held constant, the delayed stereo sample
\* fetched in a frame is the stereo mix written L frames earlier, and the
\* initial zero while fewer than L frames lie behind it; L = capacity
\* included.  (The frames before the recorded ones carry a zero mix.)
C2_DelayedByLookahead ==
    \A r \in Runs : \A k \in DOMAIN history[r] :
      (\A j \in DOMAIN history[r] : history[r][j].lookahead = history[r][k].lookahead)
      => /\ history[r][k].delayedL =
              (IF k - history[r][k].lookahead >= 1
               THEN history[r][k - history[r][k].lookahead].mixL ELSE 0)
         /\ history[r][k].delayedR =
              (IF k - history[r][k].lookahead >= 1
               THEN history[r][k - history[r][k].lookahead].mixR ELSE 0)

\* the shortest delay the feedback-delay time (5..200 tenths of a
\* millisecond) configures, in frames
MinFeedbackDelay == RoundDiv(sampleRate * 5, 10000)

\* the recorded frames of run r up to frame k in which channel ch left a
\* non-zero processed sample
NonZeroProcessed(r, ch, k) ==
    {j \in 1 .. k : history[r][j].chans[ch + 1].processed # 0}

\* C3: the feedback tap of a channel is its processed sample of D frames
\* earlier, D being the configured feedback delay: the feedback contribution
\* of a frame is zero unless the channel had a non-zero processed sample at
\* least D frames before it.  (The frames before the recorded ones leave
\* zero processed samples.)
C3_FeedbackDelayed ==
    \A r \in Runs : \A k \in DOMAIN history[r] : \A ch \in Channels(inst[r].numInputs) :
      NonZeroProcessed(r, ch, k - MinFeedbackDelay) = {}
      => history[r][k].chans[ch + 1].feedbackSample = 0

\* the state step keeps for channel ch in run r
ChannelState(r, ch) ==
    <<inst[r].feedbackSmoothed[ch], inst[r].panSmoothed[ch], inst[r].feedbackState[ch],
      inst[r].dcBlockerX1[ch], inst[r].dcBlockerY1[ch]>>

\* runs r and q gave channel ch the same parameters
SameChannelParams(r, q, ch) ==
    \A k \in 0 .. (kParamsPerChannel - 1) :
      inst[r].v[CHANNEL_PARAM(ch, k)] = inst[q].v[CHANNEL_PARAM(ch, k)]

\* C4: channel 1 is isolated from channel 0: in two runs that differ only in
\* channel 0's input, feedback setting and feedback state, channel 1 has the
\* same locals in every frame (input, feedback and pan targets, smoothed
\* values, feedback tap, processed sample, pan gains) and the same state
\* after every call.
C4_ChannelIsolation ==
    \A r \in Runs : \A q \in Runs :
      SameChannelParams(r, q, 1)
      => /\ ChannelState(r, 1) = ChannelState(q, 1)
         /\ Len(history[r]) = Len(history[q])
         /\ \A k \in DOMAIN history[r] :
              history[r][k].chans[2] = history[q][k].chans[2]

\* C4 happens: after two calls channel 0 differs between the runs in its
\* feedback setting, its state and its processed samples, while channel 1
\* runs with full feedback and a non-zero feedback contribution
C4_Reached ==
    /\ calls >= 2
    /\ inst[1].v[CHANNEL_PARAM(0, kChParamFeedback)]
         # inst[2].v[CHANNEL_PARAM(0, kChParamFeedback)]
    /\ inst[1].v[CHANNEL_PARAM(1, kChParamFeedback)] = 100
    /\ ChannelState(1, 0) # ChannelState(2, 0)
    /\ \E k \in DOMAIN history[1] :
         /\ history[1][k].chans[1].processed # history[2][k].chans[1].processed
         /\ history[1][k].chans[1].feedbackSample # history[2][k].chans[1].feedbackSample
         /\ history[1][k].chans[2].feedbackSample # 0

\* C5: the master level does not reach the limiter: two runs that differ
\* only in their master level have the same peak at the envelope follower,
\* the same envelope, the same target gain and the same gainReduction in
\* every frame.
C5_MasterAfterLimiter ==
    \A r \in Runs : \A q \in Runs : \A k \in DOMAIN history[r] :
      /\ history[r][k].peakIn = history[q][k].peakIn
      /\ history[r][k].envelope = history[q][k].envelope
      /\ history[r][k].targetGain = history[q][k].targetGain
      /\ history[r][k].gainReduction = history[q][k].gainReduction

\* C6: the DC blocker is not in the forward path: in a frame where the
\* channel's smoothed feedback gain is 0, its processed sample is its raw
\* input sample.
C6_ForwardPathUnfiltered ==
    \A r \in Runs : \A k \in DOMAIN history[r] : \A ch \in Channels(inst[r].numInputs) :
      history[r][k].chans[ch + 1].feedback = 0
      => history[r][k].chans[ch + 1].processed = history[r][k].chans[ch + 1].input

\* a and b agree to half a hundredth of a volt
Near(a, b) == Abs(a - b) <= Scale \div 200

\* frame k of run r is a passthrough frame: no feedback and no CV bus on any
\* channel, the master level at 100% and settled, and every input sample up
\* to the frame at or below the limiter threshold
Passthrough(r, k) ==
    /\ \A ch \in Channels(inst[r].numInputs) :
         /\ inst[r].v[CHANNEL_PARAM(ch, kChParamFeedback)] = 0
         /\ inst[r].v[CHANNEL_PARAM(ch, kChParamFeedbackCV)] = 0
         /\ inst[r].v[CHANNEL_PARAM(ch, kChParamPanCV)] = 0
         /\ \A j \in 1 .. k :
              /\ history[r][j].chans[ch + 1].feedback = 0
              /\ Abs(history[r][j].chans[ch + 1].input) <= kLimiterThreshold
    /\ inst[r].v[GLOBAL_PARAM_IDX(inst[r].numInputs, kGlobalParamMasterLevel)] = 100
    /\ \A j \in 1 .. k : history[r][j].master = 1 * Scale

\* the inputs of frame j of run r, each times its pan gain, summed
PannedInputL(r, j) ==
    LET c == history[r][j].chans
        RECURSIVE Sum(_)
        Sum(n) == IF n = 0 THEN 0 ELSE Sum(n - 1) + Mul(c[n].input, c[n].gainL)
    IN  Sum(Len(c))

PannedInputR(r, j) ==
    LET c == history[r][j].chans
        RECURSIVE Sum(_)
        Sum(n) == IF n = 0 THEN 0 ELSE Sum(n - 1) + Mul(c[n].input, c[n].gainR)
    IN  Sum(Len(c))

\* C7: in a passthrough frame the output is the input of lookaheadSamples
\* frames earlier times the equal-power pan gains, with no gain reduction
\* and no saturation.
C7_Passthrough ==
    \A r \in Runs : \A k \in DOMAIN history[r] :
      Passthrough(r, k) /\ k - history[r][k].lookahead >= 1
      => /\ history[r][k].gainReduction = 1 * Scale
         /\ Near(history[r][k].finalL, PannedInputL(r, k - history[r][k].lookahead))
         /\ Near(history[r][k].finalR, PannedInputR(r, k - history[r][k].lookahead))

\* the gain the limiter aims at for an envelope
TargetGainOf(envelope) ==
    IF envelope > kLimiterThreshold
    THEN RoundDiv(kLimiterThreshold * Scale, envelope) ELSE 1 * Scale

\* C8: in every frame the envelope is updated from the peak of the frame's
\* un-delayed mix (attack pole when the peak exceeds it, else release pole),
\* gainReduction is smoothed toward the target gain of the updated envelope,
\* and that gainReduction multiplies the delayed sample: a sample of an
\* earlier frame, never the one the frame has just written.
C8_LookaheadCausality ==
    \A r \in Runs : \A k \in DOMAIN history[r] :
      /\ history[r][k].peakIn =
           (IF Abs(history[r][k].mixL) > Abs(history[r][k].mixR)
            THEN Abs(history[r][k].mixL) ELSE Abs(history[r][k].mixR))
      /\ history[r][k].envelope =
           OnePole(history[r][k].envBefore, history[r][k].peakIn,
                   IF history[r][k].peakIn > history[r][k].envBefore
                   THEN inst[r].envelopeAttack ELSE inst[r].envelopeRelease)
      /\ history[r][k].gainReduction =
           OnePole(history[r][k].grBefore, TargetGainOf(history[r][k].envelope),
                   inst[r].gainSmoothingCoeff)
      /\ history[r][k].limitedL = Mul(history[r][k].delayedL, history[r][k].gainReduction)
      /\ history[r][k].limitedR = Mul(history[r][k].delayedR, history[r][k].gainReduction)
      /\ history[r][k].readIdx # history[r][k].writeIdx

\* C9: in every frame of a step call, a channel whose input bus parameter is
\* 0 has input sample 0, a channel whose feedback-CV (pan-CV) bus parameter
\* is 0 has the base feedback (pan) parameter as its target, a call whose
\* bus selections are all unset and whose output replaces reads no bus
\* memory, and no call reads bus memory below index 0.
C9_UnsetBusIsSilence ==
    \A r \in Runs :
      /\ \A k \in LastFrames(r) : \A ch \in Channels(inst[r].numInputs) :
           /\ lastCall[r].v[CHANNEL_PARAM(ch, kChParamInput)] = 0
              => history[r][k].chans[ch + 1].input = 0
           /\ lastCall[r].v[CHANNEL_PARAM(ch, kChParamFeedbackCV)] = 0
              => history[r][k].chans[ch + 1].fbTarget =
                   Percent(lastCall[r].v[CHANNEL_PARAM(ch, kChParamFeedback)])
           /\ lastCall[r].v[CHANNEL_PARAM(ch, kChParamPanCV)] = 0
              => history[r][k].chans[ch + 1].panTarget =
                   lastCall[r].v[CHANNEL_PARAM(ch, kChParamPan)] * Scale
      /\ (/\ lastCall[r].numFrames > 0
          /\ lastCall[r].v[GLOBAL_PARAM_IDX(inst[r].numInputs, kGlobalParamOutputMode)] # 0
          /\ \A ch \in Channels(inst[r].numInputs) :
               /\ lastCall[r].v[CHANNEL_PARAM(ch, kChParamInput)] = 0
               /\ lastCall[r].v[CHANNEL_PARAM(ch, kChParamFeedbackCV)] = 0
               /\ lastCall[r].v[CHANNEL_PARAM(ch, kChParamPanCV)] = 0)
         => lastCall[r].reads = {}
      /\ \A idx \in lastCall[r].reads : idx >= 0

\* C9 happens: step ran with the input bus parameter of channel 0 unset
\* while every bus carried a signal, and left a silent channel
C9_Reached ==
    /\ lastCall[1].numFrames > 0
    /\ lastCall[1].v[CHANNEL_PARAM(0, kChParamInput)] = 0
    /\ \A idx \in DOMAIN lastCall[1].busIn : lastCall[1].busIn[idx] # 0
    /\ \A k \in LastFrames(1) : history[1][k].chans[1].processed = 0
    /\ lastCall[1].reads = {}

\* the index in bus memory of frame i of the output bus parameter param
\* selected in the last call of run r
OutIdx(r, param, i) ==
    (lastCall[r].v[GLOBAL_PARAM_IDX(inst[r].numInputs, param)] - 1) * lastCall[r].numFrames + i

\* the samples of the two output busses in the last call of run r
OutSlots(r) ==
    {OutIdx(r, kGlobalParamOutputL, i) : i \in 0 .. (lastCall[r].numFrames - 1)}
      \cup {OutIdx(r, kGlobalParamOutputR, i) : i \in 0 .. (lastCall[r].numFrames - 1)}

\* step wrote nothing but samples of the two output busses
OnlyOutputWritten(r) ==
    /\ lastCall[r].writes \subseteq OutSlots(r)
    /\ \A idx \in DOMAIN busFrames[r] :
         idx \notin OutSlots(r) => busFrames[r][idx] = lastCall[r].busIn[idx]

LastReplace(r) ==
    lastCall[r].v[GLOBAL_PARAM_IDX(inst[r].numInputs, kGlobalParamOutputMode)] # 0

\* frame i of the last call of run r left the output samples the mode asks for
OutputAsMode(r, i) ==
    IF LastReplace(r)
    THEN /\ busFrames[r][OutIdx(r, kGlobalParamOutputL, i)]
              = history[r][lastCall[r].first + i].finalL
         /\ busFrames[r][OutIdx(r, kGlobalParamOutputR, i)]
              = history[r][lastCall[r].first + i].finalR
    ELSE /\ busFrames[r][OutIdx(r, kGlobalParamOutputL, i)]
              = lastCall[r].busIn[OutIdx(r, kGlobalParamOutputL, i)]
                  + history[r][lastCall[r].first + i].finalL
         /\ busFrames[r][OutIdx(r, kGlobalParamOutputR, i)]
              = lastCall[r].busIn[OutIdx(r, kGlobalParamOutputR, i)]
                  + history[r][lastCall[r].first + i].finalR

\* both outputs go to one bus: the right output is written after the left
OutputShared(r, i) ==
    IF LastReplace(r)
    THEN busFrames[r][OutIdx(r, kGlobalParamOutputL, i)]
           = history[r][lastCall[r].first + i].finalR
    ELSE busFrames[r][OutIdx(r, kGlobalParamOutputL, i)]
           = lastCall[r].busIn[OutIdx(r, kGlobalParamOutputL, i)]
               + history[r][lastCall[r].first + i].finalL
               + history[r][lastCall[r].first + i].finalR

\* C10 as stated: in every frame of a step call the left and right output
\* samples are the frame's final output when the mode is replace, and their
\* previous content plus the final output when it is add; step writes no
\* other bus sample.
C10_OutputModeAnyBusses ==
    \A r \in Runs :
      lastCall[r].numFrames > 0
      => /\ \A i \in 0 .. (lastCall[r].numFrames - 1) : OutputAsMode(r, i)
         /\ OnlyOutputWritten(r)

\* C10 amended: the same when the two output parameters select different
\* busses; when they select one bus, its sample is the right output
\* (replace) or its previous content plus both outputs (add).
C10_OutputMode ==
    \A r \in Runs :
      lastCall[r].numFrames > 0
      => /\ \A i \in 0 .. (lastCall[r].numFrames - 1) :
              IF OutIdx(r, kGlobalParamOutputL, i) # OutIdx(r, kGlobalParamOutputR, i)
              THEN OutputAsMode(r, i)
              ELSE OutputShared(r, i)
         /\ OnlyOutputWritten(r)

\* C10 happens: a call in add mode, after a call in replace mode, added a
\* non-zero output to non-zero samples of two different busses
C10_Reached ==
    /\ calls >= 2
    /\ ~LastReplace(1)
    /\ OutIdx(1, kGlobalParamOutputL, 0) # OutIdx(1, kGlobalParamOutputR, 0)
    /\ \A i \in 0 .. (lastCall[1].numFrames - 1) :
         /\ history[1][lastCall[1].first + i].finalL # 0
         /\ history[1][lastCall[1].first + i].finalR # 0
         /\ lastCall[1].busIn[OutIdx(1, kGlobalParamOutputL, i)] # 0
         /\ lastCall[1].busIn[OutIdx(1, kGlobalParamOutputR, i)] # 0
    /\ \E k \in 1 .. (lastCall[1].first - 1) : history[1][k].finalL = history[1][k].outL

\* an instance but for lookaheadSamples and the parameter values of the host
ButLookahead(alg) == [alg EXCEPT !.lookaheadSamples = 0, !.v = <<>>]

\* every lookaheadSamples there is, and every one a step call observed, is
\* in [1, capacity]
LookaheadInRange ==
    \A r \in Runs :
      /\ inst[r].lookaheadSamples >= 1
      /\ inst[r].lookaheadSamples <= Capacity(r)
      /\ \A k \in DOMAIN history[r] :
           history[r][k].lookahead >= 1 /\ history[r][k].lookahead <= Capacity(r)

\* a step of parameterChanged changes nothing of the instance but
\* lookaheadSamples, and that only in the one store of a call for the
\* lookahead parameter, to the clamped conversion of the parameter's value
ScalarUpdate ==
    (changes' # changes \/ pending' # pending)
    => /\ busFrames' = busFrames /\ history' = history /\ lastCall' = lastCall
       /\ \A r \in Runs :
            /\ ButLookahead(inst'[r]) = ButLookahead(inst[r])
            /\ inst'[r].lookaheadSamples # inst[r].lookaheadSamples
               => /\ pending.pc = "store"
                  /\ pending.p = GLOBAL_PARAM_IDX(inst[r].numInputs, kGlobalParamLookahead)
                  /\ inst'[r].lookaheadSamples =
                       ClampSamples(LookaheadParamSamples(sampleRate, inst[r].v[pending.p]),
                                    inst[r].bufferSize)

\* C11: parameterChanged modifies nothing but lookaheadSamples, and only for
\* the lookahead parameter; it leaves the lookahead buffer, writeIndex,
\* envelope, gainReduction and the per-channel state alone; it stores
\* lookaheadSamples in one write of a clamped value, so that a step call
\* interleaved at any point observes a value in [1, capacity].
C11_RaceTolerantUpdate == [](LookaheadInRange) /\ [][ScalarUpdate]_vars

\* C11 happens: a step call ran, with a played-in buffer, while a
\* parameterChanged call for the lookahead parameter had clamped a new
\* value and not yet stored it, and observed the old value
C11_Reached ==
    /\ pending.pc = "store"
    /\ calls > pending.since
    /\ pending.samples # inst[1].lookaheadSamples
    /\ inst[1].writeIndex # 0
    /\ history[1][Len(history[1])].lookahead = inst[1].lookaheadSamples

\* C12: from envelope = 0 and gainReduction = 1 at construction, after any
\* frames envelope >= 0 and 0 < gainReduction <= 1; the target gain of a
\* frame is 1 when its envelope is at or below the threshold and
\* threshold / envelope otherwise; envelope and gainReduction are updated
\* once per frame by the limiter only: each frame starts from the values the
\* frame before it left, and the instance holds those of the last frame.
C12_LimiterState ==
    \A r \in Runs :
      /\ inst[r].envelope >= 0
      /\ inst[r].gainReduction > 0
      /\ inst[r].gainReduction <= 1 * Scale
      /\ Fresh => inst[r].envelope = 0 /\ inst[r].gainReduction = 1 * Scale
      /\ \A k \in DOMAIN history[r] :
           /\ history[r][k].envelope >= 0
           /\ history[r][k].gainReduction > 0
           /\ history[r][k].gainReduction <= 1 * Scale
           /\ history[r][k].targetGain =
                (IF history[r][k].envelope <= kLimiterThreshold THEN 1 * Scale
                 ELSE RoundDiv(kLimiterThreshold * Scale, history[r][k].envelope))
           /\ k > 1 => /\ history[r][k].envBefore = history[r][k - 1].envelope
                       /\ history[r][k].grBefore = history[r][k - 1].gainReduction
           /\ k = Len(history[r])
              => /\ inst[r].envelope = history[r][k].envelope
                 /\ inst[r].gainReduction = history[r][k].gainReduction

\* C12 happens: after a parameter change and two calls the limiter has
\* engaged (envelope above the threshold, the gain reduced) and in some
\* frame the envelope was released
C12_Reached ==
    /\ calls >= 2
    /\ changes >= 1
    /\ inst[1].gainReduction < 1 * Scale
    /\ \E k \in DOMAIN history[1] :
         history[1][k].envelope > kLimiterThreshold /\ history[1][k].targetGain < 1 * Scale
    /\ \E k \in DOMAIN history[1] :
         history[1][k].envelope < history[1][k].envBefore

\* the parameter indices of a page, through its params pointer
PageParams(page) ==
    IF page.params[1] = "channelPageParams"
    THEN statics.channelPageParams[page.params[2]]
    ELSE statics.outputPageParams

\* the pages instance r exposes are those of its channel count: one page of
\* the kParamsPerChannel parameters of each channel, then the output page
PagesOfOwnCount(r) ==
    /\ statics[inst[r].parameterPages[1]].numPages = inst[r].numInputs + 1
    /\ \A pg \in 0 .. inst[r].numInputs :
         IF pg < inst[r].numInputs
         THEN /\ statics.allPages[pg].numParams = kParamsPerChannel
              /\ \A k \in 0 .. (kParamsPerChannel - 1) :
                   PageParams(statics.allPages[pg])[k] = CHANNEL_PARAM(pg, k)
         ELSE /\ statics.allPages[pg].numParams = kNumGlobalParams
              /\ \A k \in 0 .. (kNumGlobalParams - 1) :
                   PageParams(statics.allPages[pg])[k]
                     = GLOBAL_PARAM_IDX(inst[r].numInputs, k)

\* the definition at each parameter slot of instance r is that of its
\* channel count
DefinitionsOfOwnCount(r) ==
    \A p \in 0 .. (NumParams(inst[r].numInputs) - 1) :
      statics[inst[r].parameters[1]][p] = ParamDef(inst[r].numInputs, p)

\* C13: the parameter definitions and pages every instance exposes are
\* those of the channel count it was constructed with, whatever instances
\* were constructed after it.
C13_InstanceLocal ==
    \A r \in Runs : PagesOfOwnCount(r) /\ DefinitionsOfOwnCount(r)

=============================================================================
